---- MODULE Spec2Model ----
(***************************************************************************)
(* Model of alamo_alert.py: one scheduled check (main) renders the theater *)
(* page, extracts the movie cards, diffs them against the cached list,     *)
(* mails the new ones and overwrites the cache.                            *)
(*                                                                         *)
(* Text is a sequence of one-character strings so that get_text(strip=True)*)
(* and exact string comparison are computed, not assumed.                  *)
(***************************************************************************)
EXTENDS Integers, Sequences, FiniteSets, TLC

\* ------------------------------------------------------------------ bounds
\* Largest number of candidate nodes in a rendered document.
MaxBlocks == 2

\* ------------------------------------------------------------- text helpers
RECURSIVE lstrip(_)
lstrip(s) == IF s # <<>> /\ Head(s) = " " THEN lstrip(Tail(s)) ELSE s

Reverse(s) == [i \in 1..Len(s) |-> s[Len(s) + 1 - i]]

\* Tag.get_text(strip=True) on an element holding one text node.
get_text(elem) == Reverse(lstrip(Reverse(lstrip(elem))))

\* Python's `a or b or c or d` over lists: the first non-empty operand,
\* else the last one (which is then empty too).
RECURSIVE Or(_)
Or(ls) ==
    IF ls = <<>> THEN <<>>
    ELSE IF Head(ls) # <<>> THEN Head(ls)
    ELSE Or(Tail(ls))

THEATER_URL == "https://drafthouse.com/austin/showtimes"

\* --------------------------------------------------------------- documents
\* A node of the rendered page: cls is the set of movie-card selectors
\* (1..4, in the order of lines 119-122) it matches; title[i] / times[i] are
\* the texts of the elements inside it matched by the i-th title selector
\* (lines 130-133) / the i-th showtime selector (lines 143-146).
NodeA == [cls |-> {1}, title |-> << << <<"D">> >>, <<>>, <<>>, <<>> >>,
          times |-> << << <<"7">> >>, <<>>, <<>>, <<>> >>]
NodeB == [cls |-> {2}, title |-> << <<>>, << <<" ", "D">> >>, <<>>, <<>> >>,
          times |-> << <<>>, << <<" ">>, <<"7", " ">> >>, <<>>, <<>> >>]
NodeC == [cls |-> {1}, title |-> << << <<" ">> >>, << <<"H">> >>, <<>>, <<>> >>,
          times |-> << << <<"7">> >>, <<>>, <<>>, <<>> >>]
NodeD == [cls |-> {3, 4}, title |-> << <<>>, <<>>, << <<"d">> >>, <<>> >>,
          times |-> << <<>>, <<>>, <<>>, << <<"9">> >> >>]
NodeF == [cls |-> {4}, title |-> << <<>>, <<>>, <<>>, << <<"H">> >> >>,
          times |-> << << <<" ">> >>, <<>>, <<>>, << <<"9">> >> >>]

NodePool == {NodeA, NodeB, NodeC, NodeD, NodeF}

Docs == UNION {[1..n -> NodePool] : n \in 0..MaxBlocks}

\* soup.select(<i-th movie-card selector>)
Select(doc, i) == SelectSeq(doc, LAMBDA n : i \in n.cls)

\* ------------------------------------------------------------- extraction
movie_blocks_merged(doc) == SelectSeq(doc, LAMBDA n : n.cls # {})

movie_blocks(doc) ==
    Or(<< Select(doc, 1), Select(doc, 2), Select(doc, 3), Select(doc, 4) >>)

\* Lines 129-139: the first title element found is used even when its text
\* is blank (a Tag is truthy); a missing element and a blank title both skip.
block_title(block) ==
    LET title_elem == Or(block.title)
    IN  IF title_elem = <<>> THEN <<>> ELSE get_text(Head(title_elem))

\* Lines 142-148.
block_showtimes(block) ==
    LET time_elems == Or(block.times)
        texts == [i \in 1..Len(time_elems) |-> get_text(time_elems[i])]
    IN  SelectSeq(texts, LAMBDA t : t # <<>>)

\* Lines 127-157: the loop over movie_blocks.
RECURSIVE parse_blocks(_)
parse_blocks(blocks) ==
    IF blocks = <<>> THEN <<>>
    ELSE LET block == Head(blocks)
             title == block_title(block)
             showtimes == block_showtimes(block)
         IN  IF title = <<>> \/ showtimes = <<>>
             THEN parse_blocks(Tail(blocks))
             ELSE << [title |-> title, showtimes |-> showtimes,
                      url |-> THEATER_URL] >> \o parse_blocks(Tail(blocks))

\* Lines 115-160.
extract(doc) == parse_blocks(movie_blocks(doc))

\* Outcomes of the calls inside the try of fetch_movies: everything worked,
\* driver.get raised, wait.until raised TimeoutException, or a later call
\* (click, execute_script, page_source) raised.
RenderOutcomes == {"ok", "nav_error", "wait_timeout", "error"}

fetch_movies_proceed(outcome, doc) ==
    IF outcome \in {"ok", "wait_timeout"}
    THEN [movies |-> extract(doc), parsed |-> TRUE]
    ELSE [movies |-> <<>>, parsed |-> FALSE]

\* Lines 84-177 once the driver exists: the list returned on line 160, or
\* the [] of line 177 after either except clause; parsed tells whether
\* line 115 (page_source handed to BeautifulSoup) was reached.
fetch_movies(outcome, doc) ==
    IF outcome = "ok"
    THEN [movies |-> extract(doc), parsed |-> TRUE]
    ELSE [movies |-> <<>>, parsed |-> FALSE]

\* ------------------------------------------------------------------ cache
\* The cache file: missing, unreadable as JSON, or the dumped list.
json_dump(movies) == [state |-> "ok", data |-> movies]

load_cache_empty(file) == <<>>

\* Lines 180-187.
load_cache(file) == IF file.state = "ok" THEN file.data ELSE <<>>

\* Lines 190-192.
save_cache(movies) == json_dump(movies)

\* ------------------------------------------------------------------- diff
TitleSet(movies) == {movies[i].title : i \in 1..Len(movies)}

\* str.lower() on the alphabet used by the documents.
lower_char(c) == IF c = "D" THEN "d" ELSE IF c = "H" THEN "h" ELSE c
lower(s) == [i \in 1..Len(s) |-> lower_char(s[i])]

get_new_showtimes_nocase(old, new) ==
    LET old_titles == {lower(t) : t \in TitleSet(old)}
    IN  SelectSeq(new, LAMBDA m : lower(m.title) \notin old_titles)

\* Lines 195-197.
get_new_showtimes(old, new) ==
    LET old_titles == TitleSet(old)
    IN  SelectSeq(new, LAMBDA m : m["title"] \notin old_titles)

\* ------------------------------------------------------------------ email
send_email_alert_raises(enabled, smtp_ok) ==
    IF ~enabled THEN [notified |-> "skipped", raised |-> FALSE]
    ELSE IF smtp_ok THEN [notified |-> "sent", raised |-> FALSE]
    ELSE [notified |-> "failed", raised |-> TRUE]

\* Lines 200-233: enabled stands for EMAIL_ENABLED and the credentials being
\* set, smtp_ok for the SMTP calls of lines 226-230 all succeeding.
send_email_alert(enabled, smtp_ok) ==
    IF ~enabled THEN [notified |-> "skipped", raised |-> FALSE]
    ELSE IF smtp_ok THEN [notified |-> "sent", raised |-> FALSE]
    ELSE [notified |-> "failed", raised |-> FALSE]

\* ------------------------------------------------------------------ state
VARIABLES
    page,             \* the document the site serves to this run
    cache,            \* contents of CACHE_FILE
    pc,               \* position of main
    driver,           \* browser session of this run: none / open / quit
    current_movies,   \* main's local (line 238)
    previous_movies,  \* main's local (line 239)
    new_movies,       \* main's local (line 241)
    render,           \* how the try of fetch_movies ended in this run
    parsed,           \* line 115 was reached in this run
    notified,         \* what send_email_alert did in this run
    save_called,      \* save_cache was called in this run
    cache_before,     \* contents of CACHE_FILE when this run started
    repeat_run,       \* previous run rendered fine and the page is unchanged
    signalled         \* titles alerted earlier and listed at every run since

vars == << page, cache, pc, driver, current_movies, previous_movies,
           new_movies, render, parsed, notified, save_called, cache_before,
           repeat_run, signalled >>

Listed(doc) == TitleSet(extract(doc))

CacheFiles ==
    {[state |-> "absent", data |-> <<>>], [state |-> "corrupt", data |-> <<>>]}
        \cup {json_dump(extract(d)) : d \in Docs}

Init ==
    /\ page \in Docs
    /\ cache \in CacheFiles
    /\ pc = "idle"
    /\ driver = "none"
    /\ current_movies = <<>>
    /\ previous_movies = <<>>
    /\ new_movies = <<>>
    /\ render = "none"
    /\ parsed = FALSE
    /\ notified = "none"
    /\ save_called = FALSE
    /\ cache_before = cache
    /\ repeat_run = FALSE
    /\ signalled = {}

\* The scheduler starts main (lines 236-238); the site serves some document.
Main ==
    /\ pc \in {"idle", "done", "crashed"}
    /\ \E doc \in Docs :
          /\ page' = doc
          /\ repeat_run' = (pc = "done" /\ render = "ok" /\ doc = page)
          /\ signalled' = signalled \cap Listed(doc)
    /\ pc' = "get_driver"
    /\ driver' = "none"
    /\ current_movies' = <<>>
    /\ previous_movies' = <<>>
    /\ new_movies' = <<>>
    /\ render' = "none"
    /\ parsed' = FALSE
    /\ notified' = "none"
    /\ save_called' = FALSE
    /\ cache_before' = cache
    /\ UNCHANGED cache

\* Lines 47-76 called from line 81, outside the try of fetch_movies:
\* webdriver.Chrome may raise (no browser), execute_script or
\* set_page_load_timeout may raise with the browser running; the except
\* clause logs and re-raises, and nothing up to main catches it.
get_driver(outcome) ==
    CASE outcome = "chrome_raises" -> [driver |-> "none", pc |-> "crashed"]
      [] outcome = "init_raises"   -> [driver |-> "open", pc |-> "crashed"]
      [] outcome = "ok"            -> [driver |-> "open", pc |-> "rendering"]

GetDriver ==
    /\ pc = "get_driver"
    /\ \E outcome \in {"chrome_raises", "init_raises", "ok"} :
          /\ driver' = get_driver(outcome).driver
          /\ pc' = get_driver(outcome).pc
    /\ UNCHANGED << page, cache, current_movies, previous_movies, new_movies,
                    render, parsed, notified, save_called, cache_before,
                    repeat_run, signalled >>

\* Lines 82-177: the try, both except clauses and the finally with
\* driver.quit(); main receives the returned list.
FetchMovies ==
    /\ pc = "rendering"
    /\ \E outcome \in RenderOutcomes :
          /\ render' = outcome
          /\ current_movies' = fetch_movies(outcome, page).movies
          /\ parsed' = fetch_movies(outcome, page).parsed
    /\ driver' = "quit"
    /\ pc' = "load_cache"
    /\ UNCHANGED << page, cache, previous_movies, new_movies, notified,
                    save_called, cache_before, repeat_run, signalled >>

\* Line 239.
LoadCache ==
    /\ pc = "load_cache"
    /\ previous_movies' = load_cache(cache)
    /\ pc' = "get_new_showtimes"
    /\ UNCHANGED << page, cache, driver, current_movies, new_movies, render,
                    parsed, notified, save_called, cache_before, repeat_run,
                    signalled >>

\* Lines 241-243 and 248-249.
GetNewShowtimes ==
    /\ pc = "get_new_showtimes"
    /\ new_movies' = get_new_showtimes(previous_movies, current_movies)
    /\ pc' = IF new_movies' # <<>> THEN "send_email_alert" ELSE "save_cache"
    /\ UNCHANGED << page, cache, driver, current_movies, previous_movies,
                    render, parsed, notified, save_called, cache_before,
                    repeat_run, signalled >>

\* Lines 244-247.
SendEmailAlert ==
    /\ pc = "send_email_alert"
    /\ \E enabled \in BOOLEAN, smtp_ok \in BOOLEAN :
          /\ notified' = send_email_alert(enabled, smtp_ok).notified
          /\ pc' = IF send_email_alert(enabled, smtp_ok).raised
                   THEN "crashed" ELSE "save_cache"
    /\ UNCHANGED << page, cache, driver, current_movies, previous_movies,
                    new_movies, render, parsed, save_called, cache_before,
                    repeat_run, signalled >>

SaveCacheIfNew ==
    /\ pc = "save_cache"
    /\ cache' = IF new_movies # <<>> THEN save_cache(current_movies) ELSE cache
    /\ save_called' = (new_movies # <<>>)
    /\ signalled' = signalled \cup TitleSet(new_movies)
    /\ pc' = "done"
    /\ UNCHANGED << page, driver, current_movies, previous_movies, new_movies,
                    render, parsed, notified, cache_before, repeat_run >>

\* Lines 251-252.
SaveCache ==
    /\ pc = "save_cache"
    /\ cache' = save_cache(current_movies)
    /\ save_called' = TRUE
    /\ signalled' = signalled \cup TitleSet(new_movies)
    /\ pc' = "done"
    /\ UNCHANGED << page, driver, current_movies, previous_movies, new_movies,
                    render, parsed, notified, cache_before, repeat_run >>

Next ==
    \/ Main
    \/ GetDriver
    \/ FetchMovies
    \/ LoadCache
    \/ GetNewShowtimes
    \/ SendEmailAlert
    \/ SaveCache

Spec == Init /\ [][Next]_vars

\* ----------------------------------------------------------------- claims
RenderFailed == render \in {"nav_error", "wait_timeout", "error"}

AfterDiff == pc \in {"send_email_alert", "save_cache", "done"}

\* C1: in a run whose rendering fails inside fetch_movies, save_cache is
\* never called and the cache file stays what it was before the run.
C1_NoSaveOnRenderFailure ==
    RenderFailed => (~save_called /\ cache = cache_before)

\* C2: when the SMTP delivery fails, the run does not abort: it goes on to
\* save_cache and ends with the current movies stored as the new snapshot.
C2_SaveAfterNotifierFailure ==
    notified = "failed" =>
        /\ pc \in {"save_cache", "done"}
        /\ pc = "done" =>
              /\ save_called
              /\ cache.state = "ok"
              /\ cache.data = current_movies

C2_Witness ==
    /\ pc = "done"
    /\ notified = "failed"
    /\ render = "ok"
    /\ new_movies # <<>>
    /\ cache.data = current_movies
    /\ cache # cache_before

\* C3: a title that was put in the Delta of an earlier run and has been
\* listed on the page at every run since is not put in the Delta again.
C3_SignalledOnce ==
    pc \in {"send_email_alert", "save_cache"} =>
        TitleSet(new_movies) \cap signalled = {}

\* C4: a run that directly follows a successfully rendered run, renders
\* successfully itself and sees the same page has an empty Delta and does
\* not invoke the notifier.
C4_SecondRunQuiet ==
    (repeat_run /\ render = "ok") =>
        (new_movies = <<>> /\ notified = "none")

C4_Witness ==
    /\ repeat_run
    /\ render = "ok"
    /\ pc = "done"
    /\ current_movies # <<>>
    /\ previous_movies = current_movies

\* C5: after a run whose render succeeded the cache holds exactly the
\* movies extracted in that run (not a union with the previous snapshot),
\* whatever the Delta and the notifier did; an empty extraction gives an
\* empty snapshot and an empty Delta.
C5_SnapshotReplaced ==
    (pc = "done" /\ render = "ok") =>
        /\ cache.state = "ok"
        /\ cache.data = current_movies
        /\ TitleSet(cache.data) = Listed(page)
        /\ current_movies = <<>> => new_movies = <<>>

C5_Witness ==
    /\ pc = "done"
    /\ render = "ok"
    /\ previous_movies # <<>>
    /\ current_movies = <<>>
    /\ new_movies = <<>>
    /\ cache.data = <<>>
    /\ cache # cache_before

\* C6: the Delta holds exactly the titles of the current list that are not
\* titles of the previous list, compared by exact string equality.
C6_DeltaIsDifference ==
    AfterDiff =>
        TitleSet(new_movies) = TitleSet(current_movies) \ TitleSet(previous_movies)

C6_Witness ==
    /\ pc = "send_email_alert"
    /\ \E n \in TitleSet(new_movies), o \in TitleSet(previous_movies) :
          lower(n) = lower(o)

\* C7: the Delta handed to the notifier never holds the same title twice.
C7_DeltaNoDuplicates ==
    pc = "send_email_alert" =>
        \A i, j \in 1..Len(new_movies) :
            i # j => new_movies[i].title # new_movies[j].title

\* C8: the movies extracted are exactly those parsed from the nodes of the
\* first movie-card selector that matches any node; no later selector
\* contributes, even when every node of the winning selector is skipped.
C8_FirstRuleExclusive ==
    parsed =>
        \A r \in 1..4 :
            (Select(page, r) # <<>> /\ \A q \in 1..(r - 1) : Select(page, q) = <<>>)
                => /\ current_movies = parse_blocks(Select(page, r))
                   /\ TitleSet(current_movies) \subseteq
                         {block_title(Select(page, r)[i]) :
                              i \in 1..Len(Select(page, r))}

C8_Witness ==
    /\ parsed
    /\ pc = "done"
    /\ Select(page, 1) # <<>>
    /\ parse_blocks(Select(page, 1)) = <<>>
    /\ parse_blocks(Select(page, 2)) # <<>>
    /\ current_movies = <<>>

\* C9 (as claimed): when the wait for the showtime grid times out, the
\* document is still handed to extraction.
C9_TimeoutProceeds ==
    render = "wait_timeout" => parsed

\* C9 (amended): when the wait for the showtime grid times out, the document
\* is not handed to extraction; fetch_movies quits the browser and returns
\* the empty list, as it does for a navigation failure.
C9_TimeoutIsFailure ==
    render = "wait_timeout" =>
        (~parsed /\ current_movies = <<>> /\ driver = "quit")

C9_Witness ==
    /\ render = "wait_timeout"
    /\ pc = "done"
    /\ extract(page) # <<>>
    /\ current_movies = <<>>

\* C10: once a browser session exists, it has been quit whenever main is
\* past fetch_movies or has terminated.
C10_SessionReleased ==
    (driver # "none" /\ pc \notin {"get_driver", "rendering"}) =>
        driver = "quit"

====
